---- MODULE Spec2Model ----
(***************************************************************************)
(* gitai: AI-assisted commit message generator.                            *)
(*                                                                         *)
(* Text is modelled at character level: a text is a sequence of            *)
(* one-character strings, so that Python's str.strip, str.splitlines,      *)
(* str.lower, str.startswith and "\n".join are computed the way the       *)
(* interpreter computes them on the characters the model uses.             *)
(***************************************************************************)
EXTENDS Integers, Sequences, FiniteSets, TLC

(***************************************************************************)
(* Bounds of the model.                                                    *)
(***************************************************************************)
\* longest diff, in lines, fed to the two diff reducers on their own
MaxDiffLines == 3
\* largest line limit (max_diff_lines / max_changed_lines) tried
MaxLimit == 2
\* longest message, in pieces, fed to ensure_topic_line on its own
MaxMsgChunks == 4
\* liveness probes _wait_for_server makes before its deadline passes
MaxPolls == 2

(***************************************************************************)
(* Python string primitives.                                               *)
(***************************************************************************)
\* str.isspace on one character (the whitespace characters of the model)
IsSpace(c) == c \in {" ", "\n", "\r", "\t"}

\* the line boundaries str.splitlines recognises (of the model's characters)
IsLineBreak(c) == c \in {"\n", "\r"}

RECURSIVE LStrip(_)
LStrip(s) ==
    IF s = <<>> THEN <<>>
    ELSE IF IsSpace(Head(s)) THEN LStrip(Tail(s)) ELSE s

RECURSIVE RStrip(_)
RStrip(s) ==
    IF s = <<>> THEN <<>>
    ELSE IF IsSpace(s[Len(s)]) THEN RStrip(SubSeq(s, 1, Len(s) - 1)) ELSE s

\* str.strip()
Strip(s) == RStrip(LStrip(s))

RECURSIVE SplitFrom(_, _, _, _)
SplitFrom(s, i, cur, acc) ==
    IF i > Len(s) THEN (IF cur # <<>> THEN Append(acc, cur) ELSE acc)
    ELSE IF s[i] = "\r" /\ i < Len(s) /\ s[i + 1] = "\n"
         THEN SplitFrom(s, i + 2, <<>>, Append(acc, cur))
    ELSE IF IsLineBreak(s[i])
         THEN SplitFrom(s, i + 1, <<>>, Append(acc, cur))
    ELSE SplitFrom(s, i + 1, Append(cur, s[i]), acc)

\* str.splitlines(): the lines without their terminators; a final
\* terminator opens no further line
SplitLines(s) == SplitFrom(s, 1, <<>>, <<>>)

RECURSIVE JoinLines(_)
\* "\n".join(lines)
JoinLines(lines) ==
    IF lines = <<>> THEN <<>>
    ELSE IF Len(lines) = 1 THEN lines[1]
    ELSE lines[1] \o <<"\n">> \o JoinLines(Tail(lines))

\* str.startswith(prefix)
StartsWith(s, prefix) ==
    /\ Len(s) >= Len(prefix)
    /\ SubSeq(s, 1, Len(prefix)) = prefix

\* str.lower() on one character (the letters of the model)
LowerChar(c) ==
    CASE c = "T" -> "t"
      [] c = "O" -> "o"
      [] c = "P" -> "p"
      [] c = "I" -> "i"
      [] c = "C" -> "c"
      [] c = "S" -> "s"
      [] c = "Y" -> "y"
      [] c = "E" -> "e"
      [] c = "N" -> "n"
      [] OTHER -> c

\* str.lower()
Lower(s) == [i \in 1..Len(s) |-> LowerChar(s[i])]

Digit(d) == <<"0", "1", "2", "3", "4", "5", "6", "7", "8", "9">>[d + 1]

RECURSIVE Decimal(_)
\* str(n) for n >= 0, as an f-string formats an int
Decimal(n) == IF n < 10 THEN <<Digit(n)>> ELSE Decimal(n \div 10) \o <<Digit(n % 10)>>

\* f"{n}" for any int
FormatInt(n) == IF n < 0 THEN <<"-">> \o Decimal(0 - n) ELSE Decimal(n)

(***************************************************************************)
(* Diff Reducer: truncate_diff and simplify_diff_for_local.                *)
(***************************************************************************)
\* f"[... truncated {omitted} diff lines ...]"
TruncationMarker(omitted) ==
    <<"[",".",".","."," ","t","r","u","n","c","a","t","e","d"," ">>
    \o FormatInt(omitted)
    \o <<" ","d","i","f","f"," ","l","i","n","e","s"," ",".",".",".","]">>

\* an off-by-one in the size test: a diff of exactly `limit` lines is cut
truncate_diff_offbyone(diff_text, limit) ==
    LET lines == SplitLines(diff_text)
        total == Len(lines)
    IN  IF total < limit
        THEN [text |-> diff_text, truncated |-> FALSE, total |-> total, kept |-> total]
        ELSE [text |-> JoinLines(SubSeq(lines, 1, limit)
                                 \o << <<>>, TruncationMarker(total - limit) >>),
              truncated |-> TRUE, total |-> total, kept |-> limit]

\* truncate_diff(diff_text), with the module global MAX_DIFF_LINES as `limit`;
\* the tuple (text, truncated, total, kept) as a record.  lines[:limit] is
\* SubSeq(lines, 1, limit) for limit >= 0.
truncate_diff(diff_text, limit) ==
    LET lines == SplitLines(diff_text)
        total == Len(lines)
    IN  IF total <= limit
        THEN [text |-> diff_text, truncated |-> FALSE, total |-> total, kept |-> total]
        ELSE [text |-> JoinLines(SubSeq(lines, 1, limit)
                                 \o << <<>>, TruncationMarker(total - limit) >>),
              truncated |-> TRUE, total |-> total, kept |-> limit]

\* f"[... truncated after {max_changed_lines} changed lines ...]"
DigestMarker(max_changed_lines) ==
    <<"[",".",".","."," ","t","r","u","n","c","a","t","e","d"," ","a","f","t","e","r"," ">>
    \o FormatInt(max_changed_lines)
    \o <<" ","c","h","a","n","g","e","d"," ","l","i","n","e","s"," ",".",".",".","]">>

DiffGitPrefix == <<"d","i","f","f"," ","-","-","g","i","t"," ">>
IndexPrefix == <<"i","n","d","e","x"," ">>
OldPathPrefix == <<"-","-","-"," ">>
NewPathPrefix == <<"+","+","+"," ">>
HunkPrefix == <<"@","@">>

\* the first three branches of the loop of simplify_diff_for_local
IsHeaderLine(line) ==
    \/ StartsWith(line, DiffGitPrefix)
    \/ StartsWith(line, IndexPrefix)
    \/ StartsWith(line, OldPathPrefix)
    \/ StartsWith(line, NewPathPrefix)
    \/ StartsWith(line, HunkPrefix)

\* the fourth branch: an added or removed line that is no +++ / --- line
IsChangedLine(line) ==
    /\ StartsWith(line, <<"+">>) \/ StartsWith(line, <<"-">>)
    /\ ~(StartsWith(line, <<"+","+","+">>) \/ StartsWith(line, <<"-","-","-">>))

RECURSIVE SimplifyLoop(_, _, _, _, _)
\* the for loop of simplify_diff_for_local from line i on, with its break
SimplifyLoop(lines, i, out, changed, max_changed_lines) ==
    IF i > Len(lines) THEN out
    ELSE IF IsHeaderLine(lines[i])
         THEN SimplifyLoop(lines, i + 1, Append(out, lines[i]), changed, max_changed_lines)
    ELSE IF IsChangedLine(lines[i])
         THEN IF changed + 1 >= max_changed_lines
              THEN out \o << lines[i], <<>>, DigestMarker(max_changed_lines) >>
              ELSE SimplifyLoop(lines, i + 1, Append(out, lines[i]), changed + 1,
                                max_changed_lines)
    ELSE SimplifyLoop(lines, i + 1, out, changed, max_changed_lines)

simplify_diff_for_local(diff_text, max_changed_lines) ==
    JoinLines(SimplifyLoop(SplitLines(diff_text), 1, <<>>, 0, max_changed_lines))

(***************************************************************************)
(* Inputs of the diff reducers: diffs of up to MaxDiffLines lines.         *)
(***************************************************************************)
DiffLineKinds ==
    { DiffGitPrefix \o <<"f">>,
      IndexPrefix \o <<"1">>,
      OldPathPrefix \o <<"f">>,
      NewPathPrefix \o <<"f">>,
      HunkPrefix \o <<" ", "1">>,
      <<"+", "x">>,
      <<"-", "y">>,
      <<" ", "c">> }

RECURSIVE LineSeqs(_)
\* the sequences of at most n lines
LineSeqs(n) ==
    IF n = 0 THEN { <<>> }
    ELSE LET shorter == LineSeqs(n - 1)
         IN  shorter \cup { Append(ls, l) : ls \in shorter, l \in DiffLineKinds }

\* git diff --cached output: lines ended by "\n" (and, for the reducers as
\* functions of any text, the same lines without the final terminator)
DiffTexts ==
    { JoinLines(ls) : ls \in LineSeqs(MaxDiffLines) }
    \cup { JoinLines(ls) \o <<"\n">> : ls \in LineSeqs(MaxDiffLines) }

(***************************************************************************)
(* Message Post-Processor: ensure_topic_line.                              *)
(***************************************************************************)
TopicPrefix == <<"t","o","p","i","c",":">>

\* f"Topic: {manual_topic}"
TopicLine(manual_topic) == <<"T","o","p","i","c",":"," ">> \o manual_topic

RECURSIVE FirstNonBlank(_, _)
\* the loop "for i, ln in enumerate(lines): if ln.strip(): ... break" from
\* line i on: the (1-based) index of the first non-blank line, 0 for None
FirstNonBlank(lines, i) ==
    IF i > Len(lines) THEN 0
    ELSE IF Strip(lines[i]) # <<>> THEN i
    ELSE FirstNonBlank(lines, i + 1)

RECURSIVE HasTopicLine_caseSensitive(_, _)
\* the scan without .lower(): only a lower-case "topic:" is recognised
HasTopicLine_caseSensitive(lines, j) ==
    IF j > Len(lines) \/ Strip(lines[j]) = <<>> THEN FALSE
    ELSE IF StartsWith(Strip(lines[j]), TopicPrefix) THEN TRUE
    ELSE HasTopicLine_caseSensitive(lines, j + 1)

RECURSIVE HasTopicLine(_, _)
\* the while loop of ensure_topic_line from line j on: TRUE when it returns
\* from inside the loop (a Topic line stands before the first blank line)
HasTopicLine(lines, j) ==
    IF j > Len(lines) \/ Strip(lines[j]) = <<>> THEN FALSE
    ELSE IF StartsWith(Lower(Strip(lines[j])), TopicPrefix) THEN TRUE
    ELSE HasTopicLine(lines, j + 1)

\* the scan for an existing Topic line left out: a topic is always inserted
ensure_topic_line_noScan(msg, manual_topic) ==
    LET topic == Strip(manual_topic)
        lines == SplitLines(msg)
        subject_idx == FirstNonBlank(lines, 1)
    IN  IF topic = <<>> THEN Strip(msg)
        ELSE IF lines = <<>> THEN Strip(msg)
        ELSE IF subject_idx = 0 THEN Strip(msg)
        ELSE Strip(JoinLines(SubSeq(lines, 1, subject_idx)
                             \o << TopicLine(topic) >>
                             \o SubSeq(lines, subject_idx + 1, Len(lines))))

\* a slice slip: the Topic line lands before the subject line
ensure_topic_line_before_subject(msg, manual_topic) ==
    LET topic == Strip(manual_topic)
        lines == SplitLines(msg)
        subject_idx == FirstNonBlank(lines, 1)
    IN  IF topic = <<>> THEN Strip(msg)
        ELSE IF lines = <<>> THEN Strip(msg)
        ELSE IF subject_idx = 0 THEN Strip(msg)
        ELSE IF HasTopicLine(lines, subject_idx + 1) THEN Strip(msg)
        ELSE Strip(JoinLines(SubSeq(lines, 1, subject_idx - 1)
                             \o << TopicLine(topic) >>
                             \o SubSeq(lines, subject_idx, Len(lines))))

ensure_topic_line(msg, manual_topic) ==
    LET topic == Strip(manual_topic)
        lines == SplitLines(msg)
        subject_idx == FirstNonBlank(lines, 1)
    IN  IF topic = <<>> THEN Strip(msg)
        ELSE IF lines = <<>> THEN Strip(msg)
        ELSE IF subject_idx = 0 THEN Strip(msg)
        ELSE IF HasTopicLine(lines, subject_idx + 1) THEN Strip(msg)
        ELSE Strip(JoinLines(SubSeq(lines, 1, subject_idx)
                             \o << TopicLine(topic) >>
                             \o SubSeq(lines, subject_idx + 1, Len(lines))))

(***************************************************************************)
(* Inputs of ensure_topic_line: messages of up to MaxMsgChunks pieces.     *)
(***************************************************************************)
MsgChunks ==
    { <<"S">>,
      <<" ">>,
      <<"\n">>,
      <<"\r">>,
      <<"T","o","p","i","c",":"," ","x">>,
      <<"t","O","P","I","C",":">> }

RECURSIVE ChunkTexts(_, _)
\* the texts made of at most n pieces of `chunks`
ChunkTexts(chunks, n) ==
    IF n = 0 THEN { <<>> }
    ELSE LET shorter == ChunkTexts(chunks, n - 1)
         IN  shorter \cup { t \o c : t \in shorter, c \in chunks }

MsgTexts == ChunkTexts(MsgChunks, MaxMsgChunks)

\* completions of subject and body words, blanks and line ends only, one
\* piece longer: long enough for two blank lines between subject and body
BodyChunks == { <<"S">>, <<" ">>, <<"\n">> }
BodyTexts == ChunkTexts(BodyChunks, MaxMsgChunks + 1)

\* values of -m/--message: absent, blank, plain, padded, two lines
ManualTopics ==
    { <<>>,
      <<" ">>,
      <<"T","1">>,
      <<" ","T","1"," ">>,
      <<"T","\n","1">> }

(***************************************************************************)
(* The commit step of main: subject, body and the git command line.        *)
(***************************************************************************)
ArgGit == <<"g","i","t">>
ArgCommit == <<"c","o","m","m","i","t">>
ArgM == <<"-","m">>
ArgEdit == <<"-","-","e","d","i","t">>
ArgCleanup == <<"-","-","c","l","e","a","n","u","p","=","s","t","r","i","p">>

\* "Subject = first non-empty line": ln of the loop, "" when the loop
\* finds none
commit_subject(msg) ==
    LET lines == SplitLines(msg)
        subject_idx == FirstNonBlank(lines, 1)
    IN  IF subject_idx = 0 THEN <<>> ELSE lines[subject_idx]

\* every blank line after the subject skipped, not just one
RECURSIVE DropBlankLines(_)
DropBlankLines(lines) ==
    IF lines # <<>> /\ Strip(lines[1]) = <<>> THEN DropBlankLines(Tail(lines))
    ELSE lines

commit_body_dropsAllBlank(msg) ==
    LET lines == SplitLines(msg)
        subject_idx == FirstNonBlank(lines, 1)
        body_lines == IF subject_idx # 0
                      THEN SubSeq(lines, subject_idx + 1, Len(lines))
                      ELSE <<>>
    IN  RStrip(JoinLines(DropBlankLines(body_lines)))

\* "Body is everything after the subject line, skipping exactly one blank
\* line if present", then .rstrip()
commit_body(msg) ==
    LET lines == SplitLines(msg)
        subject_idx == FirstNonBlank(lines, 1)
        body_lines == IF subject_idx # 0
                      THEN SubSeq(lines, subject_idx + 1, Len(lines))
                      ELSE <<>>
        dropped == IF body_lines # <<>> /\ Strip(body_lines[1]) = <<>>
                   THEN Tail(body_lines)
                   ELSE body_lines
    IN  RStrip(JoinLines(dropped))

\* cmd = ["git", "commit", "-m", subject] (+ ["-m", body]) (+ edit flags)
commit_cmd(msg, choice) ==
    <<ArgGit, ArgCommit, ArgM, commit_subject(msg)>>
    \o (IF Strip(commit_body(msg)) # <<>> THEN <<ArgM, commit_body(msg)>> ELSE <<>>)
    \o (IF choice = <<"e">> THEN <<ArgEdit, ArgCleanup>> ELSE <<>>)

\* sys.exit(n): the exit status the parent sees is n modulo 256
ExitStatus(n) == n % 256

\* "not api_key" with only None counted as missing
KeyMissing_noneOnly(api_key) == api_key = "None"

\* "if not api_key": os.getenv gave None (unset) or the empty string
KeyMissing(api_key) == api_key \in {"None", ""}

(***************************************************************************)
(* Usage and cost.  A usage mapping is a set of <<key, value>> pairs, at   *)
(* most one per key; kind "null" is the JSON null that result.get("usage", *)
(* {}) returns when the response holds "usage": null.                      *)
(***************************************************************************)
UsageKeys == {"prompt_tokens", "completion_tokens", "total_tokens"}

\* a response with all three counts; the total is not the sum of the two
ReportedTokens ==
    { <<"prompt_tokens", 3>>, <<"completion_tokens", 2>>, <<"total_tokens", 7>> }

UsageMap(pairs) == [kind |-> "map", map |-> pairs]
NoUsage == UsageMap({})
FullUsage == UsageMap(ReportedTokens)
NullUsage == [kind |-> "null", map |-> {}]

\* call_api: result.get("usage", {}): a mapping with any of the keys, {}
\* when the key is absent, None when it is null
RemoteUsages == { UsageMap(pairs) : pairs \in SUBSET ReportedTokens } \cup {NullUsage}

\* call_ollama_chat: what the server sends, before "or {}"
LocalUsages == { NoUsage, FullUsage, NullUsage }

\* "result.get("usage", {}) or {}"
UsageOrEmpty(u) == IF u.kind = "null" \/ u.map = {} THEN NoUsage ELSE u

\* usage.get(key, default)
UsageGet(u, key, default) ==
    IF \E p \in u.map : p[1] = key
    THEN (CHOOSE p \in u.map : p[1] = key)[2]
    ELSE default

\* OPENAI_API_PRICING_PER_1M.get(model): no entry, or prices per 1M tokens
\* (in cents, so that the cost below is in 1e-8 USD and stays an integer)
Pricings ==
    { [found |-> FALSE, input |-> 0, output |-> 0],
      [found |-> TRUE, input |-> 25, output |-> 200] }

EstUnset == [kind |-> "unset", pt |-> 0, ct |-> 0, tt |-> 0, cost |-> 0]
EstNone == [kind |-> "None", pt |-> 0, ct |-> 0, tt |-> 0, cost |-> 0]
EstRaised == [kind |-> "raised", pt |-> 0, ct |-> 0, tt |-> 0, cost |-> 0]

\* lines 126-136; a mapping is asked for each key, None has no get
\* (AttributeError)
estimate_cost_usd(pricing, u) ==
    IF ~pricing.found THEN EstNone
    ELSE IF u.kind = "null" THEN EstRaised
    ELSE LET pt == UsageGet(u, "prompt_tokens", 0)
             ct == UsageGet(u, "completion_tokens", 0)
             tt == UsageGet(u, "total_tokens", pt + ct)
         IN  [kind |-> "value", pt |-> pt, ct |-> ct, tt |-> tt,
              cost |-> pt * pricing.input + ct * pricing.output]

\* build_prompt: the values substituted into the template
build_prompt(files, diff, manual_topic) ==
    [files |-> files, diff |-> diff, manual_topic |-> Strip(manual_topic)]

(***************************************************************************)
(* Inputs of a run of main.                                                *)
(***************************************************************************)
\* config.txt: default_backend, max_diff_lines, max_local_changed_lines
Configs ==
    { [default_backend |-> b, max_diff_lines |-> n, max_local_changed_lines |-> m]
        : b \in {"api", "local"}, n \in 1..MaxLimit, m \in 1..MaxLimit }

\* -m/--message values of a run
RunTopics == { <<>>, <<"T","1">>, <<" ">> }

\* what "git diff --cached" prints: nothing, blank, one changed file
StagedDiffs ==
    { <<>>,
      <<" ", "\n">>,
      <<"+","x","\n">>,
      <<"d","i","f","f"," ","-","-","g","i","t"," ","f","\n","+","x","\n","-","y","\n">> }

\* raw completions of a backend, before the backend's .strip()
ModelOutputs ==
    { <<" ", "\n">>,
      <<"S">>,
      <<" ","S","\n","\n","S","\n">>,
      <<"S","\n","T","o","p","i","c",":"," ","x","\n","S">>,
      <<"S"," ","\n","\n","\n","S">> }

\* lines typed at the confirmation prompt
ChoiceInputs ==
    { <<"y">>, <<" ", "E">>, <<"n">>, <<>>, <<"y", "e", "s">> }

\* res.returncode of "git commit": exit statuses, and -9 for a kill signal
ReturnCodes == {0, 1, 128, -9}

\* calls that reach a backend (the remote API or any local-backend step)
LocalCalls ==
    {"ollama list", "ollama pull", "GET /api/tags: up", "GET /api/tags: down",
     "ollama serve", "POST /v1/chat/completions", "ollama stop",
     "ollama stop: failed"}
RemoteCalls == {"POST api_url"}
BackendCalls == LocalCalls \cup RemoteCalls

VARIABLES
    h_text,     \* harness: the text given to the function under test
    h_arg,      \* harness: its second argument (line limit, manual topic)
    h_out,      \* harness: what the function returned
    h_done,     \* harness: how far the harness is ("none" before)
    pc,                 \* main: the statement main is at
    args,               \* main: argparse namespace
    config,             \* module globals read from config.txt
    use_local,          \* main: backend selected
    diff,               \* main: raw staged diff
    files,              \* main: staged file names
    diff_used,          \* main: what truncate_diff returned
    prompt,             \* main: what build_prompt returned
    api_key,            \* main: os.getenv(API_KEY_ENV_NAME), "unread" before
    started_server,     \* generate_commit_message_local: started_server
    polls,              \* _wait_for_server: liveness probes made so far
    msg,                \* main: msg
    usage,              \* main: usage
    est,                \* main: est, [kind |-> "unset"] before
    displayed,          \* the message printed in the preview
    choice,             \* main: choice
    cmd,                \* main: cmd
    returncode,         \* main: res.returncode
    calls,              \* subprocesses run and requests sent, in order
    exit_code,          \* exit status of the process, once pc = "exited"
    outcome             \* how the run ended ("running" before)

hvars == <<h_text, h_arg, h_out, h_done>>
pvars == <<pc, args, config, use_local, diff, files, diff_used, prompt, api_key,
           started_server, polls, msg, usage, est, displayed, choice, cmd,
           returncode, calls, exit_code, outcome>>
vars == <<hvars, pvars>>

\* main has not started
MainIdle ==
    /\ pc = "parse"
    /\ args = [command |-> "", local |-> FALSE, api |-> FALSE, manual_message |-> <<>>]
    /\ config = [default_backend |-> "api", max_diff_lines |-> 1,
                 max_local_changed_lines |-> 1]
    /\ use_local = FALSE
    /\ diff = <<>>
    /\ files = <<>>
    /\ diff_used = [text |-> <<>>, truncated |-> FALSE, total |-> 0, kept |-> 0]
    /\ prompt = build_prompt(<<>>, <<>>, <<>>)
    /\ api_key = "unread"
    /\ started_server = FALSE
    /\ polls = 0
    /\ usage = NoUsage
    /\ est = EstUnset
    /\ msg = <<>>
    /\ displayed = <<>>
    /\ choice = <<>>
    /\ cmd = <<>>
    /\ returncode = 0
    /\ calls = <<>>
    /\ exit_code = 0
    /\ outcome = "running"

\* no function is under test
HarnessIdle ==
    /\ h_text = <<>>
    /\ h_arg = <<>>
    /\ h_out = <<>>
    /\ h_done = "none"

(***************************************************************************)
(* main of gitai.py, one action per step between two external effects.     *)
(* git_ai_commit.py holds an older copy of the same main (no --api flag,   *)
(* no config file); its steps are those of gitai.py with api = FALSE and   *)
(* default_backend = "api".                                                *)
(***************************************************************************)
\* sys.exit(code), or the interpreter ending on an uncaught exception (1)
Exit(code, why) ==
    /\ pc' = "exited"
    /\ exit_code' = ExitStatus(code)
    /\ outcome' = why

Goto(next) ==
    /\ pc' = next
    /\ UNCHANGED <<exit_code, outcome>>

\* --api looked at before --local
select_backend_apiFirst(local, api, default_backend) ==
    IF api THEN FALSE
    ELSE IF local THEN TRUE
    ELSE default_backend = "local"

\* "Determine backend: explicit flag takes precedence, else use config default"
select_backend(local, api, default_backend) ==
    IF local THEN TRUE
    ELSE IF api THEN FALSE
    ELSE default_backend = "local"

ParseArgs ==
    /\ pc = "parse"
    /\ \/ /\ args' = [command |-> "", local |-> FALSE, api |-> FALSE,
                      manual_message |-> <<>>]
          /\ Exit(0, "help")
          /\ UNCHANGED use_local
       \/ \E local \in BOOLEAN, api \in BOOLEAN, manual \in RunTopics :
            /\ args' = [command |-> "commit", local |-> local, api |-> api,
                        manual_message |-> manual]
            /\ use_local' = select_backend(local, api, config.default_backend)
            /\ Goto("diff")
    /\ UNCHANGED <<hvars, config, diff, files, diff_used, prompt, api_key,
                   started_server, polls, msg, displayed, choice, cmd,
                   returncode, calls, usage, est>>

GetStagedDiff ==
    /\ pc = "diff"
    /\ calls' = Append(calls, "git diff --cached")
    /\ \/ \E out \in StagedDiffs : diff' = out /\ Goto("files")
       \/ \* CalledProcessError: get_staged_diff returns ""
          diff' = <<>> /\ Goto("files")
       \/ \* git cannot be run at all: the exception is not caught
          Exit(1, "crash_git") /\ UNCHANGED diff
    /\ UNCHANGED <<hvars, args, config, use_local, files, diff_used, prompt,
                   api_key, started_server, polls, msg, displayed, choice, cmd,
                   returncode, usage, est>>

GetStagedFiles ==
    /\ pc = "files"
    /\ calls' = Append(calls, "git diff --cached --name-only")
    /\ files' = IF Strip(diff) = <<>> THEN <<>> ELSE << <<"f">> >>
    /\ Goto("check")
    /\ UNCHANGED <<hvars, args, config, use_local, diff, diff_used, prompt,
                   api_key, started_server, polls, msg, displayed, choice, cmd,
                   returncode, usage, est>>

\* the empty-diff test skipped: the run goes on to the reducer
CheckStaged_noExit ==
    /\ pc = "check"
    /\ Goto("reduce")
    /\ UNCHANGED <<hvars, args, config, use_local, diff, files, diff_used,
                   prompt, api_key, started_server, polls, msg, displayed,
                   choice, cmd, returncode, calls, usage, est>>

CheckStaged ==
    /\ pc = "check"
    /\ IF Strip(diff) = <<>> THEN Exit(1, "no_staged") ELSE Goto("reduce")
    /\ UNCHANGED <<hvars, args, config, use_local, diff, files, diff_used,
                   prompt, api_key, started_server, polls, msg, displayed,
                   choice, cmd, returncode, calls, usage, est>>

ReduceDiff ==
    /\ pc = "reduce"
    /\ diff_used' = truncate_diff(diff, config.max_diff_lines)
    /\ prompt' = build_prompt(
                    files,
                    IF use_local
                    THEN simplify_diff_for_local(diff, config.max_local_changed_lines)
                    ELSE diff_used'.text,
                    args.manual_message)
    /\ Goto(IF use_local THEN "pull" ELSE "key")
    /\ UNCHANGED <<hvars, args, config, use_local, diff, files, api_key,
                   started_server, polls, msg, displayed, choice, cmd,
                   returncode, calls, usage, est>>

(***************************************************************************)
(* generate_commit_message_local of ollama_backend.py.                     *)
(***************************************************************************)
LocalPullIfMissing ==
    /\ pc = "pull"
    /\ \/ \* the model is listed
          calls' = Append(calls, "ollama list") /\ Goto("probe")
       \/ \* not listed (or the listing failed): pulled
          calls' = calls \o <<"ollama list", "ollama pull">> /\ Goto("probe")
       \/ \* the pull fails: check=True raises, nothing catches it
          calls' = calls \o <<"ollama list", "ollama pull">> /\ Exit(1, "crash_pull")
       \/ \* ollama cannot be run: only CalledProcessError is caught
          calls' = Append(calls, "ollama list") /\ Exit(1, "crash_pull")
    /\ UNCHANGED <<hvars, args, config, use_local, diff, files, diff_used,
                   prompt, api_key, started_server, polls, msg, displayed,
                   choice, cmd, returncode, usage, est>>

LocalProbe ==
    /\ pc = "probe"
    /\ \/ \* _is_server_up() is True
          /\ calls' = Append(calls, "GET /api/tags: up")
          /\ UNCHANGED started_server
          /\ Goto("chat")
       \/ \* not up: _start_server_cmd_window()
          /\ calls' = calls \o <<"GET /api/tags: down", "ollama serve">>
          /\ started_server' = TRUE
          /\ \/ Goto("wait")
             \/ \* Popen raises (no cmd on this machine): not caught
                Exit(1, "crash_serve")
    /\ UNCHANGED <<hvars, args, config, use_local, diff, files, diff_used,
                   prompt, api_key, polls, msg, displayed, choice, cmd,
                   returncode, usage, est>>

\* after the deadline the chat request is made all the same
LocalWaitForServer_noRaise ==
    /\ pc = "wait"
    /\ \/ /\ polls < MaxPolls
          /\ polls' = polls + 1
          /\ \/ calls' = Append(calls, "GET /api/tags: up") /\ Goto("chat")
             \/ calls' = Append(calls, "GET /api/tags: down") /\ Goto("wait")
       \/ /\ polls >= 1
          /\ Goto("chat")
          /\ UNCHANGED <<calls, polls>>
    /\ UNCHANGED <<hvars, args, config, use_local, diff, files, diff_used,
                   prompt, api_key, started_server, msg, displayed, choice,
                   cmd, returncode, usage, est>>

\* _wait_for_server: the loop test passes at the first turn (no time has
\* gone by); after any later probe the 12 s may be over.  MaxPolls caps the
\* number of probes that fit before the deadline.
LocalWaitForServer ==
    /\ pc = "wait"
    /\ \/ /\ polls < MaxPolls
          /\ polls' = polls + 1
          /\ \/ calls' = Append(calls, "GET /api/tags: up") /\ Goto("chat")
             \/ calls' = Append(calls, "GET /api/tags: down") /\ Goto("wait")
       \/ \* the deadline has passed: RuntimeError, not caught
          /\ polls >= 1
          /\ Exit(1, "server_not_ready")
          /\ UNCHANGED <<calls, polls>>
    /\ UNCHANGED <<hvars, args, config, use_local, diff, files, diff_used,
                   prompt, api_key, started_server, msg, displayed, choice,
                   cmd, returncode, usage, est>>

LocalChat ==
    /\ pc = "chat"
    /\ calls' = Append(calls, "POST /v1/chat/completions")
    /\ \/ \E raw \in ModelOutputs, u \in LocalUsages :
            /\ msg' = Strip(raw)
            /\ usage' = UsageOrEmpty(u)
            /\ Goto("stop")
       \/ \* HTTP or connection error: RuntimeError, not caught
          Exit(1, "backend_error") /\ UNCHANGED <<msg, usage>>
    /\ UNCHANGED <<hvars, args, config, use_local, diff, files, diff_used,
                   prompt, api_key, started_server, polls, displayed, choice,
                   cmd, returncode, est>>

\* an "ollama stop" that cannot be run ends the run
LocalStop_raises ==
    /\ pc = "stop"
    /\ \/ calls' = Append(calls, "ollama stop") /\ Goto("display")
       \/ calls' = Append(calls, "ollama stop: failed") /\ Exit(1, "crash_stop")
    /\ UNCHANGED <<hvars, args, config, use_local, diff, files, diff_used,
                   prompt, api_key, started_server, polls, msg, displayed,
                   choice, cmd, returncode, usage, est>>

\* step 4 of generate_commit_message_local
LocalStop ==
    /\ pc = "stop"
    /\ \/ calls' = Append(calls, "ollama stop")
       \/ \* "except Exception: pass"
          calls' = Append(calls, "ollama stop: failed")
    /\ Goto("display")
    /\ UNCHANGED <<hvars, args, config, use_local, diff, files, diff_used,
                   prompt, api_key, started_server, polls, msg, displayed,
                   choice, cmd, returncode, usage, est>>

(***************************************************************************)
(* The remote backend.                                                     *)
(***************************************************************************)
RemoteKey ==
    /\ pc = "key"
    /\ \E k \in {"None", "", "k"} :
         /\ api_key' = k
         /\ IF KeyMissing(k) THEN Exit(1, "no_key") ELSE Goto("api")
    /\ UNCHANGED <<hvars, args, config, use_local, diff, files, diff_used,
                   prompt, started_server, polls, msg, displayed, choice, cmd,
                   returncode, calls, usage, est>>

RemoteCall ==
    /\ pc = "api"
    /\ calls' = Append(calls, "POST api_url")
    /\ \/ \E raw \in ModelOutputs, u \in RemoteUsages :
            /\ msg' = Strip(raw)
            /\ usage' = u
            /\ Goto("display")
       \/ \* HTTP, connection or any other error: RuntimeError, not caught
          Exit(1, "backend_error") /\ UNCHANGED <<msg, usage>>
    /\ UNCHANGED <<hvars, args, config, use_local, diff, files, diff_used,
                   prompt, api_key, started_server, polls, displayed, choice,
                   cmd, returncode, est>>

(***************************************************************************)
(* Post-processing, confirmation and commit.                               *)
(***************************************************************************)
\* lines 359-364: "if not use_local: est = estimate_cost_usd(API_MODEL, usage)".
\* The pricing table is read here and nowhere else, so the entry of
\* API_MODEL is drawn at this read.  An exception of the estimator is not
\* caught by main.
CostInfo ==
    IF use_local
    THEN /\ est' = est
         /\ Goto("confirm")
    ELSE \E pricing \in Pricings :
            /\ est' = estimate_cost_usd(pricing, usage)
            /\ IF est'.kind = "raised"
               THEN Exit(1, "crash_estimate")
               ELSE Goto("confirm")

\* the preview printed before the Topic line is ensured
DisplayMessage_beforeEnsure ==
    /\ pc = "display"
    /\ displayed' = msg
    /\ msg' = ensure_topic_line(msg, args.manual_message)
    /\ CostInfo
    /\ UNCHANGED <<hvars, args, config, use_local, diff, files, diff_used,
                   prompt, api_key, started_server, polls, choice, cmd,
                   returncode, calls, usage>>

\* lines 351-364: the Topic line is ensured, the message printed, the cost
\* shown on a remote run
DisplayMessage ==
    /\ pc = "display"
    /\ msg' = ensure_topic_line(msg, args.manual_message)
    /\ displayed' = msg'
    /\ CostInfo
    /\ UNCHANGED <<hvars, args, config, use_local, diff, files, diff_used,
                   prompt, api_key, started_server, polls, choice, cmd,
                   returncode, calls, usage>>

\* every answer but a plain "n" goes on to the commit
Accepts_unlessNo(c) == c # <<"n">>

\* choice in ("y", "e")
Accepts(c) == c \in { <<"y">>, <<"e">> }

Confirm ==
    /\ pc = "confirm"
    /\ \/ \E typed \in ChoiceInputs :
            LET c == Lower(Strip(typed))
            IN  /\ choice' = c
                /\ IF Accepts(c) THEN Goto("build") ELSE Exit(0, "aborted")
       \/ \* end of input: EOFError, not caught
          Exit(1, "crash_input") /\ UNCHANGED choice
    /\ UNCHANGED <<hvars, args, config, use_local, diff, files, diff_used,
                   prompt, api_key, started_server, polls, msg, displayed, cmd,
                   returncode, calls, usage, est>>

\* the subject test dropped: the command is built from an empty subject
BuildCommit_noSubjectTest ==
    /\ pc = "build"
    /\ cmd' = commit_cmd(msg, choice)
    /\ Goto("commit")
    /\ UNCHANGED <<hvars, args, config, use_local, diff, files, diff_used,
                   prompt, api_key, started_server, polls, msg, displayed,
                   choice, returncode, calls, usage, est>>

BuildCommit ==
    /\ pc = "build"
    /\ IF Strip(commit_subject(msg)) = <<>>
       THEN Exit(1, "empty_subject") /\ UNCHANGED cmd
       ELSE cmd' = commit_cmd(msg, choice) /\ Goto("commit")
    /\ UNCHANGED <<hvars, args, config, use_local, diff, files, diff_used,
                   prompt, api_key, started_server, polls, msg, displayed,
                   choice, returncode, calls, usage, est>>

\* the exit status after "git commit" returned rc: always 1 on failure
CommitExit_alwaysOne(rc) == IF rc # 0 THEN 1 ELSE 0

\* "if res.returncode != 0: sys.exit(res.returncode)", else the end of main
CommitExit(rc) == IF rc # 0 THEN rc ELSE 0

RunCommit ==
    /\ pc = "commit"
    /\ calls' = Append(calls, "git commit")
    /\ \E rc \in ReturnCodes :
         /\ returncode' = rc
         /\ Exit(CommitExit(rc), IF rc # 0 THEN "commit_failed" ELSE "committed")
    /\ UNCHANGED <<hvars, args, config, use_local, diff, files, diff_used,
                   prompt, api_key, started_server, polls, msg, displayed,
                   choice, cmd, usage, est>>

Init ==
    /\ HarnessIdle
    /\ pc = "parse"
    /\ args = [command |-> "", local |-> FALSE, api |-> FALSE, manual_message |-> <<>>]
    /\ config \in Configs
    /\ use_local = FALSE
    /\ diff = <<>>
    /\ files = <<>>
    /\ diff_used = [text |-> <<>>, truncated |-> FALSE, total |-> 0, kept |-> 0]
    /\ prompt = build_prompt(<<>>, <<>>, <<>>)
    /\ api_key = "unread"
    /\ started_server = FALSE
    /\ polls = 0
    /\ usage = NoUsage
    /\ est = EstUnset
    /\ msg = <<>>
    /\ displayed = <<>>
    /\ choice = <<>>
    /\ cmd = <<>>
    /\ returncode = 0
    /\ calls = <<>>
    /\ exit_code = 0
    /\ outcome = "running"

Next ==
    \/ ParseArgs
    \/ GetStagedDiff
    \/ GetStagedFiles
    \/ CheckStaged
    \/ ReduceDiff
    \/ LocalPullIfMissing
    \/ LocalProbe
    \/ LocalWaitForServer
    \/ LocalChat
    \/ LocalStop
    \/ RemoteKey
    \/ RemoteCall
    \/ DisplayMessage
    \/ Confirm
    \/ BuildCommit
    \/ RunCommit

Spec == Init /\ [][Next]_vars

(***************************************************************************)
(* SpecPost: main from the moment the remote backend has returned, for     *)
(* every completion of up to MaxMsgChunks pieces and every manual topic.   *)
(***************************************************************************)
PostDiff == <<"+", "x", "\n">>

InitPost ==
    /\ HarnessIdle
    /\ pc = "display"
    /\ \E manual \in ManualTopics :
         /\ args = [command |-> "commit", local |-> FALSE, api |-> FALSE,
                    manual_message |-> manual]
         /\ prompt = build_prompt(<< <<"f">> >>, PostDiff, manual)
    /\ config = [default_backend |-> "api", max_diff_lines |-> 1,
                 max_local_changed_lines |-> 1]
    /\ use_local = FALSE
    /\ diff = PostDiff
    /\ files = << <<"f">> >>
    /\ diff_used = truncate_diff(PostDiff, 1)
    /\ api_key = "k"
    /\ started_server = FALSE
    /\ polls = 0
    /\ usage = FullUsage
    /\ est = EstUnset
    /\ msg \in { Strip(raw) : raw \in MsgTexts \cup BodyTexts }
    /\ displayed = <<>>
    /\ choice = <<>>
    /\ cmd = <<>>
    /\ returncode = 0
    /\ calls = <<"git diff --cached", "git diff --cached --name-only", "POST api_url">>
    /\ exit_code = 0
    /\ outcome = "running"

NextPost ==
    \/ DisplayMessage
    \/ Confirm
    \/ BuildCommit
    \/ RunCommit

SpecPost == InitPost /\ [][NextPost]_vars

(***************************************************************************)
(* SpecLocal: main from the call of generate_commit_message_local onward,  *)
(* the polling loop never stalling (each probe has a timeout and the loop  *)
(* sleeps 0.15 s between probes).                                          *)
(***************************************************************************)
InitLocal ==
    /\ HarnessIdle
    /\ pc = "pull"
    /\ \E manual \in RunTopics, api \in BOOLEAN :
         /\ args = [command |-> "commit", local |-> TRUE, api |-> api,
                    manual_message |-> manual]
         /\ prompt = build_prompt(<< <<"f">> >>, simplify_diff_for_local(PostDiff, 1),
                                  manual)
    /\ config = [default_backend |-> "api", max_diff_lines |-> 1,
                 max_local_changed_lines |-> 1]
    /\ use_local = TRUE
    /\ diff = PostDiff
    /\ files = << <<"f">> >>
    /\ diff_used = truncate_diff(PostDiff, 1)
    /\ api_key = "unread"
    /\ started_server = FALSE
    /\ polls = 0
    /\ usage = NoUsage
    /\ est = EstUnset
    /\ msg = <<>>
    /\ displayed = <<>>
    /\ choice = <<>>
    /\ cmd = <<>>
    /\ returncode = 0
    /\ calls = <<"git diff --cached", "git diff --cached --name-only">>
    /\ exit_code = 0
    /\ outcome = "running"

NextLocal ==
    \/ LocalPullIfMissing
    \/ LocalProbe
    \/ LocalWaitForServer
    \/ LocalChat
    \/ LocalStop
    \/ DisplayMessage
    \/ Confirm
    \/ BuildCommit
    \/ RunCommit

SpecLocal == InitLocal /\ [][NextLocal]_vars /\ WF_vars(LocalWaitForServer)

(***************************************************************************)
(* SpecReduce: the two reducers applied to every diff and every limit.     *)
(***************************************************************************)
InitReduce ==
    /\ h_text \in DiffTexts
    /\ h_arg \in 0..MaxLimit
    /\ h_out = [text |-> <<>>]
    /\ h_done = "none"
    /\ MainIdle

ApplyTruncate ==
    /\ h_done = "none"
    /\ h_out' = truncate_diff(h_text, h_arg)
    /\ h_done' = "truncate_diff"
    /\ UNCHANGED <<h_text, h_arg, pvars>>

ApplySimplify ==
    /\ h_done = "none"
    /\ h_out' = [text |-> simplify_diff_for_local(h_text, h_arg)]
    /\ h_done' = "simplify_diff_for_local"
    /\ UNCHANGED <<h_text, h_arg, pvars>>

NextReduce == ApplyTruncate \/ ApplySimplify

SpecReduce == InitReduce /\ [][NextReduce]_vars

(***************************************************************************)
(* SpecTopic: ensure_topic_line applied once and then again to its own     *)
(* result, for every message and every manual topic.                       *)
(***************************************************************************)
InitTopic ==
    /\ h_text \in MsgTexts
    /\ h_arg \in ManualTopics
    /\ h_out = <<>>
    /\ h_done = "none"
    /\ MainIdle

ApplyEnsureTopic ==
    /\ h_done = "none"
    /\ h_out' = << ensure_topic_line(h_text, h_arg) >>
    /\ h_done' = "once"
    /\ UNCHANGED <<h_text, h_arg, pvars>>

ReapplyEnsureTopic ==
    /\ h_done = "once"
    /\ h_out' = Append(h_out, ensure_topic_line(h_out[1], h_arg))
    /\ h_done' = "twice"
    /\ UNCHANGED <<h_text, h_arg, pvars>>

NextTopic == ApplyEnsureTopic \/ ReapplyEnsureTopic

SpecTopic == InitTopic /\ [][NextTopic]_vars

(***************************************************************************)
(* Claims about the diff reducers (checked under SpecReduce).              *)
(***************************************************************************)
\* C7: truncate_diff, for every diff and limit: with totalLines <= limit it
\* returns the input text unchanged, truncated = FALSE and keptLines =
\* totalLines; with totalLines > limit it returns exactly the first `limit`
\* input lines, in order, followed by an empty line and the marker line that
\* states totalLines - limit, truncated = TRUE and keptLines = limit.  Hence
\* keptLines <= totalLines and truncated = (keptLines < totalLines).
C7_HardTruncate ==
    h_done = "truncate_diff" =>
        LET lines == SplitLines(h_text)
            n == Len(lines)
        IN  /\ h_out.total = n
            /\ n <= h_arg =>
                   /\ h_out.text = h_text
                   /\ h_out.truncated = FALSE
                   /\ h_out.kept = n
            /\ n > h_arg =>
                   /\ h_out.truncated = TRUE
                   /\ h_out.kept = h_arg
                   /\ SplitLines(h_out.text)
                        = [i \in 1..(h_arg + 2) |->
                             IF i <= h_arg THEN lines[i]
                             ELSE IF i = h_arg + 1 THEN <<>>
                             ELSE TruncationMarker(n - h_arg)]
            /\ h_out.kept <= h_out.total
            /\ h_out.truncated = (h_out.kept < h_out.total)

\* C7 witness: a diff longer than a non-zero limit has been truncated
C7_Witness ==
    /\ h_done = "truncate_diff"
    /\ h_arg >= 1
    /\ Len(SplitLines(h_text)) > h_arg
    /\ h_out.truncated

\* C8 (as claimed, here for limits of at least one line): the output of
\* simplify_diff_for_local contains every file-header and hunk-header line
\* of the input, in original order, also those after the changed-line limit
\* was reached, and at most maxChangedLines added/removed content lines.
C8_DigestKeepsAllHeaders ==
    (h_done = "simplify_diff_for_local" /\ h_arg >= 1) =>
        /\ SelectSeq(SplitLines(h_out.text), IsHeaderLine)
             = SelectSeq(SplitLines(h_text), IsHeaderLine)
        /\ Len(SelectSeq(SplitLines(h_out.text), IsChangedLine)) <= h_arg

(***************************************************************************)
(* Claims about ensure_topic_line (checked under SpecTopic).               *)
(***************************************************************************)
\* C9: ensureTopic is idempotent: for every message and every manual topic,
\* applying it to its own result returns that result again; a second
\* application never inserts a second Topic line.
C9_EnsureTopicIdempotent ==
    h_done = "twice" => h_out[2] = h_out[1]

\* C9 witness: the first application inserted a Topic line and the function
\* has been applied to its own result
C9_Witness ==
    /\ h_done = "twice"
    /\ Strip(h_arg) # <<>>
    /\ h_out[1] # Strip(h_text)

\* Vocabulary of the statements below.
\* the lines are blank from line a to line b
BlankBetween(lines, a, b) == \A k \in a..b : Strip(lines[k]) = <<>>

\* the subject: the index of the first non-blank line, 0 when there is none
SubjectIdxOf(lines) ==
    IF \A i \in 1..Len(lines) : Strip(lines[i]) = <<>> THEN 0
    ELSE CHOOSE i \in 1..Len(lines) :
             Strip(lines[i]) # <<>> /\ BlankBetween(lines, 1, i - 1)

\* no Topic:-prefixed line (case-insensitive) among the contiguous non-blank
\* lines immediately following line si
NoTopicAfter(lines, si) ==
    \A j \in (si + 1)..Len(lines) :
        (\A k \in (si + 1)..j : Strip(lines[k]) # <<>>)
            => ~StartsWith(Lower(Strip(lines[j])), <<"t","o","p","i","c",":">>)

\* `lines` with `line` inserted directly after line si
InsertAfter(lines, si, line) ==
    [i \in 1..(Len(lines) + 1) |->
        IF i <= si THEN lines[i] ELSE IF i = si + 1 THEN line ELSE lines[i - 1]]

\* C10 (as claimed): for a non-empty manual topic and a message with a
\* subject line and no Topic line after it, the result is the message with
\* exactly one new line "Topic: <manualTopic>" directly after the subject
\* line and all other lines kept in their original order.
C10_AsClaimed ==
    h_done \in {"once", "twice"} =>
        LET lines == SplitLines(h_text)
            si == SubjectIdxOf(lines)
        IN  (h_arg # <<>> /\ si # 0 /\ NoTopicAfter(lines, si)) =>
                SplitLines(h_out[1])
                  = InsertAfter(lines, si,
                                    <<"T","o","p","i","c",":"," ">> \o h_arg)

\* C10 (amended): for a manual topic that, trimmed of surrounding
\* whitespace, is non-empty and one line, and a message with a subject line
\* and no Topic line after it, the result is: the subject line without its
\* leading whitespace, then the one new line "Topic: <trimmed manualTopic>",
\* then the lines that followed the subject in their original order up to
\* the last non-blank one, which loses its trailing whitespace.  Blank lines
\* before the subject and at the end of the message are dropped.
C10_InsertsTopicAfterSubject ==
    h_done \in {"once", "twice"} =>
        LET lines == SplitLines(h_text)
            si == SubjectIdxOf(lines)
            topic == Strip(h_arg)
            new == <<"T","o","p","i","c",":"," ">> \o topic
            all == InsertAfter(lines, si, new)
            last == CHOOSE i \in 1..Len(all) :
                        Strip(all[i]) # <<>> /\ BlankBetween(all, i + 1, Len(all))
            res == SplitLines(h_out[1])
        IN  ( /\ topic # <<>>
              /\ \A i \in 1..Len(topic) : ~IsLineBreak(topic[i])
              /\ si # 0
              /\ NoTopicAfter(lines, si) ) =>
                /\ Len(res) = last - si + 1
                /\ res[1] = LStrip(lines[si])
                /\ res[2] = new
                /\ \A i \in 3..Len(res) :
                       res[i] = IF i = Len(res) THEN RStrip(lines[si + i - 2])
                                ELSE lines[si + i - 2]

\* C10 witness: the example of the specification, subject / blank / body
\* with topic "T1", has become subject / Topic: T1 / blank / body
C10_Witness ==
    /\ h_done = "once"
    /\ h_text = <<"S", "\n", "\n", "S">>
    /\ h_arg = <<"T", "1">>
    /\ h_out[1] = <<"S", "\n", "T","o","p","i","c",":"," ","T","1", "\n", "\n", "S">>

\* the case of C11: the manual topic is empty, or a Topic:-prefixed line
\* stands among the contiguous non-blank lines that follow the subject
TopicAbsentOrPresent(text, manual_topic, empty) ==
    LET lines == SplitLines(text)
        si == SubjectIdxOf(lines)
    IN  \/ empty
        \/ manual_topic # <<>> /\ si # 0 /\ ~NoTopicAfter(lines, si)

\* C11 (as claimed): whenever manualTopic is empty, and whenever a Topic
\* line already follows the subject, ensureTopic returns exactly its input,
\* for every input message.
C11_AsClaimed ==
    h_done \in {"once", "twice"} =>
        (TopicAbsentOrPresent(h_text, h_arg, h_arg = <<>>) => h_out[1] = h_text)

\* C11 (amended): whenever manualTopic is empty or only whitespace, and
\* whenever a Topic line already follows the subject, ensureTopic returns
\* its input without the whitespace that surrounds it and changes nothing
\* else: the input is whitespace, then the result, then whitespace, and the
\* result neither starts nor ends with whitespace.  A message without
\* surrounding whitespace is returned exactly.
C11_UnchangedUpToTrim ==
    h_done \in {"once", "twice"} =>
        (TopicAbsentOrPresent(h_text, h_arg, \A i \in DOMAIN h_arg : IsSpace(h_arg[i])) =>
            LET res == h_out[1]
            IN  /\ \E a \in 0..Len(h_text) :
                     /\ a + Len(res) <= Len(h_text)
                     /\ SubSeq(h_text, a + 1, a + Len(res)) = res
                     /\ \A i \in 1..a : IsSpace(h_text[i])
                     /\ \A i \in (a + Len(res) + 1)..Len(h_text) : IsSpace(h_text[i])
                /\ res # <<>> => ~IsSpace(res[1]) /\ ~IsSpace(res[Len(res)])
                /\ (h_text # <<>> /\ ~IsSpace(h_text[1]) /\ ~IsSpace(h_text[Len(h_text)]))
                       => res = h_text)

\* C11 witness: a topic is given and the message already carries a Topic
\* line in other letter case after its subject; it is returned as it was
C11_Witness ==
    /\ h_done = "once"
    /\ h_arg = <<"T", "1">>
    /\ h_text = <<"S", "\n", "t","O","P","I","C",":">>
    /\ h_out[1] = h_text

(***************************************************************************)
(* Claims about a run of main (checked under Spec, C4 under SpecPost).     *)
(***************************************************************************)
Committed == \E i \in DOMAIN calls : calls[i] = "git commit"

NonBlank(text) == \E i \in DOMAIN text : ~IsSpace(text[i])

\* C1: no partial commit.  In every run "git commit" is invoked at most
\* once and only as the last action of the pipeline (nothing is run after
\* it, the process is over), and it is invoked only when every earlier step
\* succeeded: a non-blank staged diff, a credential when the remote backend
\* is used, a backend that answered, a message with a subject line, and an
\* accepting answer.  A run that failed earlier never invokes it.
C1_NoPartialCommit ==
    /\ \A i \in DOMAIN calls : calls[i] = "git commit" => i = Len(calls)
    /\ Committed =>
         /\ pc = "exited"
         /\ outcome \in {"committed", "commit_failed"}
         /\ NonBlank(diff)
         /\ use_local \/ api_key \notin {"unread", "None", ""}
         /\ \E i \in DOMAIN calls :
                calls[i] \in {"POST api_url", "POST /v1/chat/completions"}
         /\ NonBlank(displayed)
         /\ choice \in { <<"y">>, <<"e">> }
    /\ outcome \in {"help", "crash_git", "no_staged", "no_key", "crash_pull",
                    "crash_serve", "server_not_ready", "backend_error",
                    "crash_estimate", "crash_input",
                    "empty_subject", "aborted"} => ~Committed

\* C1 witness: the model's output had no subject line, the user accepted,
\* and the run ended without a commit
C1_Witness ==
    /\ pc = "exited"
    /\ outcome = "empty_subject"
    /\ choice = <<"y">>
    /\ ~Committed

\* C2: whenever the staged diff is empty or whitespace-only (also when
\* "git diff" failed and gave the empty string), the run performs no
\* backend call, can only go on to the exit, and exits with code 1.
C2_EmptyDiffExitsBeforeBackend ==
    ( /\ \E i \in DOMAIN calls : calls[i] = "git diff --cached"
      /\ outcome # "crash_git"
      /\ \A i \in DOMAIN diff : IsSpace(diff[i]) ) =>
        /\ \A i \in DOMAIN calls : calls[i] \notin BackendCalls
        /\ pc \in {"files", "check", "exited"}
        /\ pc = "exited" => exit_code = 1 /\ outcome = "no_staged"

\* C2 witness: a whitespace-only diff ended the run with code 1
C2_Witness ==
    /\ pc = "exited"
    /\ outcome = "no_staged"
    /\ diff = <<" ", "\n">>
    /\ exit_code = 1

\* C3: with the remote backend selected and the credential variable unset
\* or empty, the run ends with exit code 1 and no request has been sent to
\* the remote API.
C3_MissingKeyExitsBeforeRequest ==
    (~use_local /\ api_key \in {"None", ""}) =>
        /\ pc = "exited"
        /\ exit_code = 1
        /\ \A i \in DOMAIN calls : calls[i] \notin BackendCalls

\* C3 witness: the variable is set to the empty string and the run is over
C3_Witness ==
    /\ pc = "exited"
    /\ outcome = "no_key"
    /\ api_key = ""
    /\ args.api

\* split of the specification: the first non-blank line
SplitSubject(text) ==
    LET lines == SplitLines(text)
    IN  lines[SubjectIdxOf(lines)]

\* split of the specification: the lines after the subject, at most one
\* leading blank line removed, trailing whitespace trimmed
SplitBody(text) ==
    LET lines == SplitLines(text)
        si == SubjectIdxOf(lines)
        first == IF si < Len(lines) /\ Strip(lines[si + 1]) = <<>>
                 THEN si + 2 ELSE si + 1
    IN  RStrip(JoinLines(SubSeq(lines, first, Len(lines))))

\* C4: the commit arguments are split applied to the message shown in the
\* preview: the first -m carries the subject, the second -m the body, and
\* the second -m is left out exactly when the body is blank.
C4_CommitArgsMatchPreview ==
    (pc = "commit" \/ outcome \in {"committed", "commit_failed"}) =>
        /\ Len(cmd) >= 4
        /\ SubSeq(cmd, 1, 4) = <<ArgGit, ArgCommit, ArgM, SplitSubject(displayed)>>
        /\ IF NonBlank(SplitBody(displayed))
           THEN /\ Len(cmd) >= 6
                /\ cmd[5] = ArgM
                /\ cmd[6] = SplitBody(displayed)
           ELSE \A i \in 5..Len(cmd) : cmd[i] # ArgM

\* C4 witness: a Topic line was inserted for the manual topic and the
\* commit ran with a subject and a body
C4_Witness ==
    /\ outcome = "committed"
    /\ args.manual_message = <<"T", "1">>
    /\ displayed = <<"S", "\n", "T","o","p","i","c",":"," ","T","1", "\n", "\n", "S">>
    /\ Len(cmd) = 6

\* C5: after the message is displayed, an answer other than y or e (after
\* trimming and lower-casing, as the prompt reads it), the empty answer
\* included, ends the run with exit code 0 and no commit; the commit step
\* is only ever entered with y or e.
C5_DeclineExitsZeroWithoutCommit ==
    /\ outcome = "aborted" =>
         /\ pc = "exited"
         /\ exit_code = 0
         /\ ~Committed
    /\ (pc \in {"build", "commit"} \/ Committed
        \/ outcome \in {"empty_subject", "committed", "commit_failed"}) =>
         choice \in { <<"y">>, <<"e">> }
    /\ (pc = "exited" /\ displayed # <<>>
        /\ outcome \notin {"crash_input", "crash_estimate"}
        /\ choice \notin { <<"y">>, <<"e">> }) =>
         outcome = "aborted"

\* C5 witness: the user typed "yes", which is neither y nor e
C5_Witness ==
    /\ outcome = "aborted"
    /\ choice = <<"y", "e", "s">>
    /\ displayed # <<>>

\* C6: once "git commit" has returned exit code c, the process exits with
\* exactly c when c is not 0 and with 0 when it is.
C6_CommitExitCodePropagated ==
    outcome \in {"committed", "commit_failed"} =>
        /\ pc = "exited"
        /\ returncode \in 0..255 => exit_code = returncode
        /\ (outcome = "committed") = (returncode = 0)

\* C6 witness: git commit returned 128 and so did the process
C6_Witness ==
    /\ outcome = "commit_failed"
    /\ returncode = 128
    /\ exit_code = 128

\* the body argument of the command line: what follows the second -m, the
\* empty text when there is no second -m
BodyArg == IF Len(cmd) >= 6 /\ cmd[5] = ArgM THEN cmd[6] ELSE <<>>

\* C12: split as the commit step does it, for every message.  The subject
\* argument is the first non-blank line; the body argument is the lines
\* after the subject, joined, without the first of them when it is blank (a
\* second blank line stays) and without trailing whitespace; a message
\* with no non-blank line ends the run with exit code 1 and no commit.
C12_SplitInCommitStep ==
    LET lines == SplitLines(msg)
        si == SubjectIdxOf(lines)
        n == Len(lines)
    IN  /\ (pc = "commit" \/ outcome \in {"committed", "commit_failed"}) =>
              /\ si # 0
              /\ cmd[4] = lines[si]
              /\ BlankBetween(lines, 1, si - 1)
              /\ NonBlank(cmd[4])
              /\ BodyArg = SplitBody(msg)
              /\ (si < n /\ ~NonBlank(lines[si + 1])) =>
                     BodyArg = RStrip(JoinLines(SubSeq(lines, si + 2, n)))
              /\ (si < n /\ NonBlank(lines[si + 1])) =>
                     BodyArg = RStrip(JoinLines(SubSeq(lines, si + 1, n)))
              /\ (si + 2 < n /\ ~NonBlank(lines[si + 1]) /\ ~NonBlank(lines[si + 2])) =>
                     /\ SplitLines(BodyArg)[1] = lines[si + 2]
                     /\ Len(SplitLines(BodyArg)) = n - si - 1
              /\ BodyArg # <<>> => ~IsSpace(BodyArg[Len(BodyArg)])
        /\ outcome = "empty_subject" =>
              /\ si = 0
              /\ exit_code = 1
              /\ ~Committed
        /\ (si = 0 /\ pc \notin {"display", "confirm", "build"}) => ~Committed

\* C12 witness: two blank lines stood between subject and body; the commit
\* ran with a body that still starts with the second of them
C12_Witness ==
    /\ outcome = "committed"
    /\ msg = <<"S", "\n", "\n", "\n", "S">>
    /\ cmd[4] = <<"S">>
    /\ BodyArg = <<"\n", "S">>

\* C12 second case reached: a message with no non-blank line was accepted
C12_EmptyReached ==
    /\ outcome = "empty_subject"
    /\ exit_code = 1

\* main has built the prompt: it is in a backend, past it, or has exited
\* from there
PromptBuilt ==
    \/ pc \in {"pull", "probe", "wait", "chat", "stop", "key", "api",
               "display", "confirm", "build", "commit"}
    \/ /\ pc = "exited"
       /\ outcome \notin {"help", "crash_git", "no_staged"}

\* the backend calls of the log
BackendCallsMade == { calls[i] : i \in DOMAIN calls } \cap BackendCalls

\* C13 as claimed: --local forces the local backend and --api forces the
\* remote backend for every combination of the two flags and the default.
C13_AsClaimed ==
    args.command = "commit" =>
        /\ args.local => use_local
        /\ args.api => ~use_local
        /\ (~args.local /\ ~args.api) => (use_local <=> config.default_backend = "local")

\* C13: --local selects the local backend whatever else is given; --api
\* without --local selects the remote backend whatever the default; with
\* neither flag the backend is local exactly when the default is "local".
\* The diff of the prompt is simplify_diff_for_local of the whole staged
\* diff on a local run and the text of truncate_diff of the staged diff on a
\* remote run, and only the selected backend is ever called.
C13_BackendAndPolicy ==
    args.command = "commit" =>
        /\ args.local => use_local
        /\ (args.api /\ ~args.local) => ~use_local
        /\ (~args.local /\ ~args.api) => (use_local <=> config.default_backend = "local")
        /\ PromptBuilt =>
              prompt.diff = IF use_local
                            THEN simplify_diff_for_local(diff, config.max_local_changed_lines)
                            ELSE truncate_diff(diff, config.max_diff_lines).text
        /\ BackendCallsMade \subseteq (IF use_local THEN LocalCalls ELSE RemoteCalls)
        /\ pc \in {"pull", "probe", "wait", "chat", "stop"} => use_local
        /\ pc \in {"key", "api"} => ~use_local

\* C13 witness: both flags with the default "api": the local backend runs on
\* the digest, which is not what truncation gives
C13_Witness ==
    /\ args.command = "commit"
    /\ args.local /\ args.api
    /\ config.default_backend = "api"
    /\ use_local
    /\ pc = "chat"
    /\ prompt.diff = simplify_diff_for_local(diff, config.max_local_changed_lines)
    /\ prompt.diff # truncate_diff(diff, config.max_diff_lines).text

\* C13 remote case reached: --api against the default "local"
C13_RemoteReached ==
    /\ args.api /\ ~args.local
    /\ config.default_backend = "local"
    /\ pc = "api"
    /\ prompt.diff = truncate_diff(diff, config.max_diff_lines).text
    /\ prompt.diff # simplify_diff_for_local(diff, config.max_local_changed_lines)

\* how often a call stands in the log
RECURSIVE CountCalls(_, _)
CountCalls(log, names) ==
    IF log = <<>> THEN 0
    ELSE (IF Head(log) \in names THEN 1 ELSE 0) + CountCalls(Tail(log), names)

\* the results of the liveness probes of the log, in order
Probes == SelectSeq(calls, LAMBDA c : c \in {"GET /api/tags: up", "GET /api/tags: down"})

ChatRequested == CountCalls(calls, {"POST /v1/chat/completions"}) > 0

\* the readiness rules of one local run, as a predicate of a state
ReadinessRules ==
    LET serves == CountCalls(calls, {"ollama serve"})
        n == Len(Probes)
        allDown == \A i \in 1..n : Probes[i] = "GET /api/tags: down"
    IN  /\ serves <= 1
        /\ n >= 1 =>
              /\ Probes[1] = "GET /api/tags: down" => serves = 1 /\ started_server
              /\ Probes[1] = "GET /api/tags: up" =>
                    serves = 0 /\ ~started_server /\ n = 1 /\ polls = 0
        /\ n = 0 => serves = 0 /\ ~started_server
        /\ n >= 2 => n = 1 + polls
        /\ \A i \in 1..(n - 1) : Probes[i] = "GET /api/tags: down"
        /\ pc = "wait" => allDown /\ serves = 1 /\ polls <= MaxPolls
        /\ allDown => ~ChatRequested
        /\ outcome = "server_not_ready" =>
              /\ pc = "exited" /\ exit_code = 1
              /\ allDown /\ n = 1 + polls /\ polls >= 1
              /\ serves = 1
              /\ ~ChatRequested
              /\ ~Committed
        /\ (pc = "exited" /\ allDown) => ~Committed

\* C14: on a local run the server is launched at most once, and once
\* exactly when the first probe found it down; polling goes on only while
\* every probe so far found it down, and it always ends, in a probe that
\* succeeds or in the "did not become ready" error; that error comes with no
\* chat request and no commit and exit code 1; when the first probe
\* succeeds the server is not launched, started_server stays false and no
\* further probe is made.
C14_Readiness ==
    /\ []ReadinessRules
    /\ (pc = "wait") ~> (pc = "chat" \/ outcome = "server_not_ready")

\* C14 witness: the first probe and every probe up to the deadline found
\* the server down; the run ended with the error
C14_Witness ==
    /\ outcome = "server_not_ready"
    /\ polls = MaxPolls
    /\ CountCalls(calls, {"ollama serve"}) = 1
    /\ Len(Probes) = MaxPolls + 1
    /\ ~ChatRequested

\* C14 second case reached: the server was up at the first probe
C14_UpAtOnce ==
    /\ pc = "chat"
    /\ Probes = <<"GET /api/tags: up">>
    /\ ~started_server

\* the run is past the cost lines of a remote run
PastCostInfo ==
    /\ ~use_local
    /\ displayed # <<>> \/ pc \in {"confirm", "build", "commit"}
       \/ outcome \in {"crash_estimate", "crash_input", "aborted",
                       "empty_subject", "committed", "commit_failed"}

\* C15: on a remote run, whatever usage the response carried (any of the
\* three keys missing, or no usage at all), the estimator returns: nothing
\* when the model has no pricing entry, else the counts with 0 for a
\* missing prompt or completion count and their sum for a missing total;
\* and the run goes on to the confirmation prompt.
C15_EstimatorNeverFails ==
    PastCostInfo =>
        /\ outcome # "crash_estimate"
        /\ est.kind \in {"None", "value"}
        /\ est.kind = "value" =>
              /\ est.pt = UsageGet(usage, "prompt_tokens", 0)
              /\ est.ct = UsageGet(usage, "completion_tokens", 0)
              /\ est.tt = UsageGet(usage, "total_tokens", est.pt + est.ct)

\* the places of the log where one of the calls stands
CallsAt(names) == { i \in DOMAIN calls : calls[i] \in names }

StopCalls == {"ollama stop", "ollama stop: failed"}

\* the order of the calls of one local run, as a predicate of a state
PhaseOrder ==
    LET presence == CallsAt({"ollama list", "ollama pull"})
        probes == CallsAt({"GET /api/tags: up", "GET /api/tags: down"})
        ups == CallsAt({"GET /api/tags: up"})
        chats == CallsAt({"POST /v1/chat/completions"})
        stops == CallsAt(StopCalls)
    IN  /\ \A i \in presence, j \in probes : i < j
        /\ probes # {} => presence # {} /\ outcome # "crash_pull"
        /\ outcome = "crash_pull" => probes = {} /\ chats = {} /\ stops = {}
        /\ Cardinality(chats) <= 1
        /\ \A i \in chats : \E j \in ups : j < i
        /\ Cardinality(stops) <= 1
        /\ \A i \in stops : \E j \in chats : j < i
        /\ (use_local /\ outcome = "backend_error") => stops = {}
        /\ stops # {} => outcome \notin {"backend_error", "server_not_ready",
                                         "crash_serve", "crash_pull"}
        /\ pc = "stop" => chats # {} /\ stops = {}

\* C16: in the log of a local run the model listing and the pull come
\* before every liveness probe, and a run whose pull failed makes no probe;
\* there is at most one chat request, made after a probe that found the
\* server up; a stop of the model is sent at most once, after the chat
\* request, and never on a run whose chat request failed; and the stop
\* step, whether the stop command ran or raised, leaves the message and the
\* usage as the chat returned them and goes on to the display of the
\* message.
C16_LocalPhaseOrder ==
    /\ []PhaseOrder
    /\ [][pc = "stop" =>
            /\ msg' = msg
            /\ usage' = usage
            /\ pc' = "display"
            /\ outcome' = outcome
            /\ Len(calls') = Len(calls) + 1
            /\ calls'[Len(calls')] \in StopCalls]_vars

\* C16 witness: the server had to be started, the chat returned a message
\* with usage, the stop command raised, and the message is about to be
\* displayed as returned
C16_Witness ==
    /\ pc = "display"
    /\ use_local
    /\ calls[Len(calls)] = "ollama stop: failed"
    /\ CallsAt({"ollama pull"}) # {}
    /\ CallsAt({"ollama serve"}) # {}
    /\ msg = <<"S">>
    /\ usage = FullUsage

====
